---- MODULE Spec2Model ----
(***************************************************************************)
(* Model of mailgun-validate-email.                                        *)
(*                                                                         *)
(* The repository holds two validators:                                    *)
(*   - the fetch-based validator (createValidator / validator /            *)
(*     validateEmail, listed in README.md lines 188-273), specification    *)
(*     Spec;                                                               *)
(*   - the request-based validator of src/index.js, specification          *)
(*     SpecLegacy.                                                         *)
(*                                                                         *)
(* One JavaScript macrotask (a timer callback, a transport event, the      *)
(* caller's invocation) together with the microtasks it schedules is one   *)
(* action: promise continuations run to completion before the next event.  *)
(***************************************************************************)
EXTENDS Integers, Sequences, FiniteSets, TLC

VARIABLES now, options, calls, nextId

vars == <<now, options, calls, nextId>>

\* ---------------------------------------------------------------- bounds
MaxCalls == 2
MaxTime == 6000
TickMs == 2000

\* ------------------------------------------------------ program constants
TIMEOUT_MS == 4000
LEGACY_TIMEOUT == 4000

API_BASE_URL == "https://api.mailgun.net/v3/address/validate"
LEGACY_URL == "https://api.mailgun.net/v2/address/validate"

\* ------------------------------------------------------------ input sets
CallIds == 1..MaxCalls
Undefined == "<undefined>"
Emails == {"banana@papaia.com", "invalid-email-format"}
ApiKey == "key"
OptionTimeouts == {1}
StatusCodes == {200, 401, 403, 500}
FixedCodes == {"EAUTH", "EAPI", "ETIMEDOUT", "EUNKNOWN"}

\* A response body as the remote sends it: text that parses to an object, to
\* null, or not at all; the object's fields of interest.
Body(parse, result, isValid, message) ==
    [parse |-> parse, result |-> result, is_valid |-> isValid, message |-> message]

NoBody == Body("none", Undefined, Undefined, Undefined)

OkBodies ==
    { Body("object", "deliverable", "false", Undefined),
      Body("object", "undeliverable", "true", Undefined),
      Body("object", Undefined, "true", Undefined),
      Body("null", Undefined, Undefined, Undefined),
      Body("error", Undefined, Undefined, Undefined) }

ErrorBodies ==
    { Body("object", Undefined, Undefined, "Internal server error"),
      Body("object", Undefined, Undefined, ""),
      Body("object", Undefined, Undefined, Undefined),
      Body("error", Undefined, Undefined, Undefined) }

\* Errors the transport raises before any HTTP response.
TransportErrors ==
    { [name |-> "Error", code |-> Undefined, message |-> "Network error"],
      [name |-> "Error", code |-> "ECONNRESET", message |-> "socket hang up"] }

\* --------------------------------------------------------------- outcomes
\* What a call settles with: a result (kind "ok") or an error (kind "err").
Outcome(kind, name, code, status, message, result, isValid) ==
    [kind |-> kind, name |-> name, code |-> code, status |-> status,
     message |-> message, result |-> result, is_valid |-> isValid]

NoOutcome == Outcome("none", Undefined, Undefined, 0, Undefined, Undefined, Undefined)

Err(name, code, status, message) ==
    Outcome("err", name, code, status, message, Undefined, Undefined)

Ok(result, isValid) ==
    Outcome("ok", Undefined, Undefined, 0, Undefined, result, isValid)

\* The error a throwing callback throws.
CallbackError == Err("Error", Undefined, 0, "thrown by callback")

\* What the transport did for a call: nothing yet, a response, an error raised
\* before any response, or the expiry of the wait.
Event(kind, name, code, message) ==
    [kind |-> kind, name |-> name, code |-> code, message |-> message]

NoEvent == Event("none", Undefined, Undefined, Undefined)

NewCall ==
    [pc |-> "new", email |-> Undefined, conv |-> "none", cbThrows |-> FALSE,
     thisValidator |-> Undefined,
     start |-> 0, timer |-> "none", aborted |-> FALSE, requests |-> 0,
     url |-> <<>>, auth |-> <<>>, wait |-> 0,
     event |-> NoEvent, status |-> 0, body |-> NoBody, latency |-> -1,
     settled |-> NoOutcome, cb |-> <<>>, promise |-> NoOutcome,
     unhandled |-> FALSE]

Init ==
    /\ now = 0
    /\ options \in {[hasTimeout |-> FALSE, timeout |-> 0]}
                    \cup [hasTimeout : {TRUE}, timeout : OptionTimeouts]
    /\ calls = [c \in CallIds |-> NewCall]
    /\ nextId = 1

\* The timer of call c is armed and its delay has passed.
Due(c) == calls[c].timer = "armed" /\ now >= calls[c].start + calls[c].wait

\* Time passes. A due timer's callback runs before time passes further, and
\* before any transport event of its call that comes no earlier than it.
Tick ==
    /\ now + TickMs <= MaxTime
    /\ \A c \in CallIds : ~Due(c)
    /\ now' = now + TickMs
    /\ UNCHANGED <<options, calls, nextId>>

\* ------------------------------------------------ fetch-based validator
\* The wait bound a call arms its timer with.
TimeoutFor(opts) == TIMEOUT_MS

BoolStr(b) == IF b THEN "true" ELSE "false"

\* response.ok
IsOk(status) == status >= 200 /\ status <= 299

\* JavaScript truthiness of a string-or-undefined value.
Truthy(v) == v # Undefined /\ v # ""

GenericMessage(status) == "HTTP error! status: " \o ToString(status)

\* ErrorMessage with a plausible defect: the body's message is never read.
ErrorMessageIgnoresBody(status, body) == GenericMessage(status)

\* errorData.message || errorMessage, the default kept when the body does not
\* parse (or parses to null, whose .message throws inside the inner try).
ErrorMessage(status, body) ==
    IF body.parse = "object" /\ Truthy(body.message)
    THEN body.message
    ELSE GenericMessage(status)

ErrorCodeFor(status) == IF status = 401 THEN "EAUTH" ELSE "EAPI"

HttpError(status, body) ==
    Err("Error", ErrorCodeFor(status), status, ErrorMessage(status, body))

\* IsValid with a plausible defect: an is_valid the remote sent is kept.
IsValidKeepsRemote(body) ==
    IF body.is_valid # Undefined
    THEN body.is_valid = "true"
    ELSE body.result = "deliverable"

\* result.is_valid = result.result === 'deliverable'
IsValid(body) == body.result = "deliverable"

\* Classify with a plausible defect: the code is set whether or not one is present.
ClassifyOverwritesCode(e) ==
    IF e.name = "AbortError"
    THEN Err("Error", "ETIMEDOUT", 0, "Request timed out")
    ELSE [e EXCEPT !.code = "EUNKNOWN"]

\* The catch block of validateEmail: what it rethrows for a caught error.
Classify(e) ==
    IF e.name = "AbortError"
    THEN Err("Error", "ETIMEDOUT", 0, "Request timed out")
    ELSE IF ~Truthy(e.code)
         THEN [e EXCEPT !.code = "EUNKNOWN"]
         ELSE e

\* What awaiting response.json() and the lines after it yield for a 2xx body.
ParseResult(body) ==
    CASE body.parse = "error" ->
           Classify(Err("SyntaxError", Undefined, 0, "Unexpected token"))
      [] body.parse = "null" ->
           Classify(Err("TypeError", Undefined, 0, "Cannot set properties of null"))
      [] OTHER -> Ok(body.result, BoolStr(IsValid(body)))

\* validator: hand validateEmail's outcome o to the caller of call record r.
\*   promise:  return validateEmail(email)
\*   callback: validateEmail(email).then(result => callback(null, result))
\*                                 .catch(callback)
ValidatorDeliver(r, o) ==
    IF r.conv = "promise"
    THEN [r EXCEPT !.promise = o]
    ELSE IF o.kind = "ok" /\ r.cbThrows
         THEN [r EXCEPT !.cb = <<o, CallbackError>>, !.unhandled = TRUE]
         ELSE [r EXCEPT !.cb = <<o>>, !.unhandled = r.cbThrows]

\* validateEmail's promise settles with o; both paths run clearTimeout.
Settle(r, o) ==
    ValidatorDeliver(
        [r EXCEPT !.pc = "done", !.settled = o,
                  !.timer = IF @ = "armed" THEN "cleared" ELSE @], o)

\* AbortTargets with a plausible defect: one controller shared by every call.
AbortTargetsShared(c) == CallIds

\* The calls whose request the controller of call c cancels.
AbortTargets(c) == {c}

\* validator(email, callback): build the URL, arm the timer, call fetch.
\* Calls start while the modelled time span still covers their timer.
Validate(email, conv, cbThrows) ==
    /\ nextId <= MaxCalls
    /\ now + TimeoutFor(options) <= MaxTime
    /\ calls' = [calls EXCEPT ![nextId] =
                   [@ EXCEPT !.pc = "fetch", !.email = email, !.conv = conv,
                             !.cbThrows = cbThrows, !.start = now,
                             !.timer = "armed", !.wait = TimeoutFor(options),
                             !.requests = @ + 1,
                             !.url = <<API_BASE_URL, email>>,
                             !.auth = <<"api", ApiKey>>]]
    /\ nextId' = nextId + 1
    /\ UNCHANGED <<now, options>>

\* fetch throws or rejects with a transport error.
FetchFails(c, e) ==
    /\ calls[c].pc = "fetch"
    /\ ~Due(c)
    /\ calls' = [calls EXCEPT ![c] =
                   Settle([@ EXCEPT !.event = Event("error", e.name, e.code, e.message)],
                          Classify(Err(e.name, e.code, 0, e.message)))]
    /\ UNCHANGED <<now, options, nextId>>

\* The response headers arrive: clearTimeout, then await response.json().
FetchResponds(c, status) ==
    /\ calls[c].pc = "fetch"
    /\ ~Due(c)
    /\ calls' = [calls EXCEPT ![c] =
                   [@ EXCEPT !.pc = IF IsOk(status) THEN "json" ELSE "errjson",
                             !.event = Event("response", Undefined, Undefined, Undefined),
                             !.status = status, !.latency = now - calls[c].start,
                             !.timer = "cleared"]]
    /\ UNCHANGED <<now, options, nextId>>

\* The body of a 2xx response is complete.
BodyArrives(c, body) ==
    /\ calls[c].pc = "json"
    /\ calls' = [calls EXCEPT ![c] = Settle([@ EXCEPT !.body = body], ParseResult(body))]
    /\ UNCHANGED <<now, options, nextId>>

\* The body of a non-2xx response is complete (or fails to parse).
ErrorBodyArrives(c, body) ==
    /\ calls[c].pc = "errjson"
    /\ calls' = [calls EXCEPT ![c] =
                   Settle([@ EXCEPT !.body = body],
                          Classify(HttpError(calls[c].status, body)))]
    /\ UNCHANGED <<now, options, nextId>>

\* setTimeout(() => controller.abort(), TIMEOUT_MS) runs: the in-flight fetch
\* rejects with an AbortError, which the catch block turns into ETIMEDOUT.
TimerFires(c) ==
    /\ Due(c)
    /\ calls' = [d \in CallIds |->
                   IF d \in AbortTargets(c) /\ calls[d].pc = "fetch"
                   THEN Settle([calls[d] EXCEPT !.aborted = TRUE,
                                                !.event = Event("timeout", Undefined,
                                                                Undefined, Undefined),
                                                !.timer = IF d = c THEN "fired" ELSE @],
                               Classify(Err("AbortError", Undefined, 0,
                                            "The operation was aborted.")))
                   ELSE calls[d]]
    /\ UNCHANGED <<now, options, nextId>>

Next ==
    \/ Tick
    \/ \E email \in Emails, conv \in {"callback", "promise"}, cbThrows \in BOOLEAN :
          /\ (conv = "promise" => ~cbThrows)
          /\ Validate(email, conv, cbThrows)
    \/ \E c \in CallIds, e \in TransportErrors : FetchFails(c, e)
    \/ \E c \in CallIds, status \in StatusCodes : FetchResponds(c, status)
    \/ \E c \in CallIds, body \in OkBodies : BodyArrives(c, body)
    \/ \E c \in CallIds, body \in ErrorBodies : ErrorBodyArrives(c, body)
    \/ \E c \in CallIds : TimerFires(c)

Spec == Init /\ [][Next]_vars

\* ---------------------------------------------- request-based validator
\* Every body the remote may send, whatever the status.
LegacyBodies == OkBodies \cup ErrorBodies

\* Errors the request library reports through its callback's err argument.
RequestTimeoutError == [name |-> "Error", code |-> "ETIMEDOUT", message |-> "ETIMEDOUT"]

\* JSON.parse(res.request.response.body): the parsed value, passed on as it is.
LegacyParse(body) ==
    IF body.parse = "error"
    THEN Err("SyntaxError", Undefined, 0, "Unexpected token")
    ELSE Outcome("ok", Undefined, Undefined, 0, body.message, body.result, body.is_valid)

\* The callback the promise branch passes: err ? reject(err) : resolve(result).
\* The caller's callback otherwise; it is recorded with each argument it gets.
LegacyInvoke(r, o) ==
    IF r.conv = "promise"
    THEN [r EXCEPT !.promise = o]
    ELSE [r EXCEPT !.cb = Append(@, o)]

\* if (err) return cb(err): a throw of the callback leaves the request callback.
LegacyFail(r, o) ==
    [LegacyInvoke(r, o) EXCEPT !.pc = "done", !.settled = o, !.timer = "cleared",
                               !.unhandled = r.cbThrows]

\* try { result = JSON.parse(body); cb(null, result) } catch (err) { cb(err) }
LegacyComplete(r, body) ==
    LET o == LegacyParse(body)
        first == [LegacyInvoke(r, o) EXCEPT !.pc = "done", !.settled = o,
                                            !.body = body, !.timer = "cleared"]
    IN  IF o.kind = "ok" /\ r.cbThrows
        THEN [LegacyInvoke(first, CallbackError) EXCEPT !.unhandled = TRUE]
        ELSE [first EXCEPT !.unhandled = r.cbThrows]

\* validator(email, cb) of src/index.js. Without cb it returns a promise whose
\* executor calls this.validator; thisValidator is what the call site makes of
\* this.validator: undefined, or the validator itself.
LegacyValidate(email, conv, cbThrows, thisValidator) ==
    /\ nextId <= MaxCalls
    /\ now + LEGACY_TIMEOUT <= MaxTime
    /\ LET r == [calls[nextId] EXCEPT !.email = email, !.conv = conv,
                                      !.cbThrows = cbThrows, !.start = now,
                                      !.thisValidator = thisValidator]
       IN  calls' = [calls EXCEPT ![nextId] =
             IF conv = "promise" /\ thisValidator = Undefined
             THEN [r EXCEPT !.pc = "done",
                            !.promise = Err("TypeError", Undefined, 0,
                                            "func is not a function")]
             ELSE [r EXCEPT !.pc = "request", !.timer = "armed",
                            !.wait = LEGACY_TIMEOUT, !.requests = @ + 1,
                            !.url = <<LEGACY_URL, email>>,
                            !.auth = <<"api", ApiKey>>]]
    /\ nextId' = nextId + 1
    /\ UNCHANGED <<now, options>>

\* request calls back with a transport error.
RequestFails(c, e) ==
    /\ calls[c].pc = "request"
    /\ ~Due(c)
    /\ calls' = [calls EXCEPT ![c] =
                   LegacyFail([@ EXCEPT !.event = Event("error", e.name, e.code, e.message)],
                              Err(e.name, e.code, 0, e.message))]
    /\ UNCHANGED <<now, options, nextId>>

\* The timeout option of request expires: request calls back with its error.
RequestTimesOut(c) ==
    /\ calls[c].pc = "request"
    /\ Due(c)
    /\ calls' = [calls EXCEPT ![c] =
                   [LegacyFail(@, Err(RequestTimeoutError.name, RequestTimeoutError.code,
                                      0, RequestTimeoutError.message))
                       EXCEPT !.timer = "fired", !.aborted = TRUE,
                              !.event = Event("timeout", Undefined, Undefined, Undefined)]]
    /\ UNCHANGED <<now, options, nextId>>

\* request calls back with a complete response of any status.
RequestCompletes(c, status, body) ==
    /\ calls[c].pc = "request"
    /\ ~Due(c)
    /\ calls' = [calls EXCEPT ![c] = LegacyComplete([@ EXCEPT !.status = status,
                                            !.event = Event("response", Undefined,
                                                            Undefined, Undefined)],
                                  body)]
    /\ UNCHANGED <<now, options, nextId>>

NextLegacy ==
    \/ Tick
    \/ \E email \in Emails, conv \in {"callback", "promise"}, cbThrows \in BOOLEAN,
          thisValidator \in {Undefined, "validator"} :
          /\ (conv = "promise" => ~cbThrows)
          /\ (conv = "callback" => thisValidator = Undefined)
          /\ LegacyValidate(email, conv, cbThrows, thisValidator)
    \/ \E c \in CallIds, e \in TransportErrors : RequestFails(c, e)
    \/ \E c \in CallIds : RequestTimesOut(c)
    \/ \E c \in CallIds, status \in StatusCodes, body \in LegacyBodies :
          RequestCompletes(c, status, body)

SpecLegacy == Init /\ [][NextLegacy]_vars

\* The fetch-based validator with the scheduling the event loop guarantees: time
\* passes and a due timer's callback runs. The remote is under no obligation.
FairSpec ==
    /\ Spec
    /\ WF_vars(Tick)
    /\ \A c \in CallIds : WF_vars(TimerFires(c))

\* ----------------------------------------------------------------- claims
Started(c) == calls[c].pc # "new"
Done(c) == calls[c].pc = "done"

\* What the caller of call c was handed first: the promise's settlement, or the
\* arguments of the callback's first invocation.
Delivery(c) ==
    IF calls[c].conv = "promise"
    THEN calls[c].promise
    ELSE IF calls[c].cb # <<>> THEN calls[c].cb[1] ELSE NoOutcome

\* Every error the caller of call c was handed.
DeliveredErrors(c) ==
    IF calls[c].conv = "promise"
    THEN IF calls[c].promise.kind = "err" THEN {calls[c].promise} ELSE {}
    ELSE {calls[c].cb[i] : i \in {j \in DOMAIN calls[c].cb : calls[c].cb[j].kind = "err"}}

\* C1: a supplied callback is invoked exactly once over the life of the call,
\* however the request completes and whether or not the callback throws: never
\* before completion, once at completion, never again.
C1_CallbackExactlyOnce ==
    \A c \in CallIds :
        calls[c].conv = "callback" =>
            Len(calls[c].cb) = (IF Done(c) THEN 1 ELSE 0)

\* C2: every call that was started is eventually handed its outcome, whatever
\* the remote does, given that timers fire.
C2_EveryCallTerminates ==
    \A c \in CallIds : Started(c) ~> Done(c)

\* Supporting property for C2: the wait for the response headers is bounded by
\* the timer, so a call can stay pending only after its headers have arrived.
HeadersWaitIsBounded ==
    \A c \in CallIds : (calls[c].pc = "fetch") ~> (calls[c].pc # "fetch")

\* C3: with createValidator(apiKey, {timeout: T}), a call whose response took
\* longer than T fails with ETIMEDOUT and never resolves with a result.
C3_ConfiguredTimeoutApplies ==
    \A c \in CallIds :
        (options.hasTimeout /\ calls[c].latency > options.timeout /\ Done(c)) =>
            (Delivery(c).kind = "err" /\ Delivery(c).code = "ETIMEDOUT")

\* C4: a response of status 401 or 403 makes the call fail with code EAUTH and
\* with that status.
C4_AuthStatusesGiveEAUTH ==
    \A c \in CallIds :
        (Done(c) /\ calls[c].status \in {401, 403}) =>
            /\ Delivery(c).kind = "err"
            /\ Delivery(c).code = "EAUTH"
            /\ Delivery(c).status = calls[c].status

\* C5: every error handed to a caller carries a code, one of EAUTH, EAPI,
\* ETIMEDOUT, EUNKNOWN.
C5_ErrorCodesInFixedSet ==
    \A c \in CallIds : \A e \in DeliveredErrors(c) : e.code \in FixedCodes

\* The text `HTTP error! status: <code>` for the statuses the remote answers with.
GenericText(status) ==
    CASE status = 401 -> "HTTP error! status: 401"
      [] status = 403 -> "HTTP error! status: 403"
      [] status = 500 -> "HTTP error! status: 500"
      [] OTHER -> Undefined

NonOkNot401(c) ==
    /\ Done(c)
    /\ calls[c].event.kind = "response"
    /\ ~(calls[c].status >= 200 /\ calls[c].status <= 299)
    /\ calls[c].status # 401

SameTransport(c, d) ==
    /\ calls[c].event = calls[d].event
    /\ calls[c].status = calls[d].status
    /\ calls[c].body = calls[d].body

\* C8: a call without a callback and a call with one, for the same email, issue
\* the same request with the same wait, and under the same transport behaviour
\* the promise settles with what the callback is invoked with.
C8_ConventionsEquivalent ==
    \A c, d \in CallIds :
        ( /\ calls[c].conv = "callback" /\ calls[d].conv = "promise"
          /\ Done(c) /\ Done(d)
          /\ calls[c].email = calls[d].email ) =>
            /\ calls[c].requests = calls[d].requests
            /\ calls[c].url = calls[d].url
            /\ calls[c].auth = calls[d].auth
            /\ SameTransport(c, d) =>
                  /\ calls[d].promise = Delivery(c)
                  /\ Len(calls[c].cb) = 1

\* C9: a step changes one call only, and a call is aborted or fails with
\* ETIMEDOUT only in a step in which its own timer was due.
C9_NoInterference ==
    [][ \A c \in CallIds :
          calls'[c] # calls[c] =>
            /\ \A d \in CallIds \ {c} : calls'[d] = calls[d]
            /\ ( \/ (calls'[c].aborted /\ ~calls[c].aborted)
                 \/ (calls'[c].settled.code = "ETIMEDOUT"
                       /\ calls[c].settled.code # "ETIMEDOUT") ) =>
                  /\ calls[c].timer = "armed"
                  /\ now >= calls[c].start + TIMEOUT_MS ]_vars

\* C9 witness: one call's timer has expired and failed it with ETIMEDOUT while
\* another call, started before that expiry, is still in flight and untouched.
C9_Witness ==
    \E c, d \in CallIds :
        /\ c # d
        /\ Done(c) /\ calls[c].timer = "fired" /\ Delivery(c).code = "ETIMEDOUT"
        /\ calls[d].pc = "fetch" /\ ~calls[d].aborted /\ calls[d].timer = "armed"

TransportFailed(c) == Done(c) /\ calls[c].event.kind = "error"

====
